---------------------------- MODULE Spec2Model ----------------------------
(***************************************************************************)
(* IRR / PV calculator (src/code2.py): calculate_irr, calculate_present_   *)
(* value and the Streamlit script main().                                  *)
(*                                                                         *)
(* Floating-point numbers are modelled as decimal floats <<m, e>> with an  *)
(* 8-digit mantissa (value m * 10^e), overflow to +-Inf, NaN, and          *)
(* flush-to-zero underflow.  All intermediate integers stay below 2^31.    *)
(***************************************************************************)
EXTENDS Integers, Sequences, FiniteSets, TLC

---------------------------------------------------------------------------
(* Decimal floating point: the arithmetic of Python float / numpy float64  *)

MantMin == 10^7          \* smallest normalised mantissa
MantMax == 10^8          \* mantissas are below this
HalfBase == 10^4         \* mantissas split in two halves for products
EMax == 10 * 3           \* largest exponent of a finite number
EMin == 0 - 10 * 4       \* smallest exponent; below it a result is zero
ESpecial == EMax + 1     \* exponent field of Inf and NaN

NaN == <<0, ESpecial>>
PInf == <<1, ESpecial>>
NInf == <<-1, ESpecial>>
Zero == <<0, 0>>
One == <<MantMin, -7>>

Sgn(n) == IF n > 0 THEN 1 ELSE IF n < 0 THEN -1 ELSE 0
IAbs(n) == IF n < 0 THEN -n ELSE n

IsNaN(a) == a[2] = ESpecial /\ a[1] = 0
IsInf(a) == a[2] = ESpecial /\ a[1] # 0
IsFinite(a) == a[2] # ESpecial

RECURSIVE NumDigits(_)
NumDigits(n) == IF n = 0 THEN 0 ELSE 1 + NumDigits(n \div 10)

\* n / k rounded to nearest (half up), n >= 0, k a power of ten
RoundDiv(n, k) == IF k = 1 THEN n ELSE (n + k \div 2) \div k

\* a finite result of sign s, mantissa n in MantMin..MantMax, exponent e
Fin(s, n, e) ==
    LET n2 == IF n = MantMax THEN MantMin ELSE n
        e2 == IF n = MantMax THEN e + 1 ELSE e
    IN  IF e2 > EMax THEN <<s, ESpecial>>
        ELSE IF e2 < EMin THEN Zero
        ELSE <<s * n2, e2>>

\* the float nearest to the integer m times 10^e  (|m| < 2^31)
Rnd(m, e) ==
    IF m = 0 THEN Zero
    ELSE LET n == IAbs(m)
             d == NumDigits(n)
         IN  IF d > 8 THEN Fin(Sgn(m), RoundDiv(n, 10^(d - 8)), e + (d - 8))
             ELSE Fin(Sgn(m), n * 10^(8 - d), e - (8 - d))

FromInt(n) == Rnd(n, 0)

FNeg(a) == <<-a[1], a[2]>>
FAbs(a) == <<IAbs(a[1]), a[2]>>

\* exact 16-digit product of two mantissas, rounded to 8 digits
MulFin(a, b) ==
    LET s == Sgn(a[1]) * Sgn(b[1])
        x == IAbs(a[1])
        y == IAbs(b[1])
        ah == x \div HalfBase
        al == x % HalfBase
        bh == y \div HalfBase
        bl == y % HalfBase
        cross == ah * bl + al * bh
        t == (cross % HalfBase) * HalfBase + al * bl
        lo == t % MantMax
        hi == ah * bh + cross \div HalfBase + t \div MantMax
        e == a[2] + b[2]
    IN  IF s = 0 THEN Zero
        ELSE IF hi >= MantMin
             THEN Fin(s, hi + (IF 2 * lo >= MantMax THEN 1 ELSE 0), e + 8)
             ELSE Fin(s, hi * 10 + lo \div MantMin
                         + (IF 2 * (lo % MantMin) >= MantMin THEN 1 ELSE 0),
                      e + 7)

FMul(a, b) ==
    IF IsNaN(a) \/ IsNaN(b) THEN NaN
    ELSE IF IsInf(a) \/ IsInf(b)
         THEN IF a[1] = 0 \/ b[1] = 0 THEN NaN
              ELSE <<Sgn(a[1]) * Sgn(b[1]), ESpecial>>
         ELSE MulFin(a, b)

\* k steps of long division: <<quotient, remainder>>
RECURSIVE LongDiv(_, _, _, _)
LongDiv(r, b, k, q) ==
    IF k = 0 THEN <<q, r>>
    ELSE LongDiv((r * 10) % b, b, k - 1, q * 10 + (r * 10) \div b)

DivFin(a, b) ==
    LET s == Sgn(a[1]) * Sgn(b[1])
        x == IAbs(a[1])
        y == IAbs(b[1])
        k == IF x >= y THEN 7 ELSE 8
        qr == LongDiv(x % y, y, k, x \div y)
    IN  Fin(s, qr[1] + (IF 2 * qr[2] >= y THEN 1 ELSE 0), a[2] - b[2] - k)

\* IEEE division: x/0 is +-Inf, 0/0 and Inf/Inf are NaN; nothing is raised
FDiv(a, b) ==
    IF IsNaN(a) \/ IsNaN(b) THEN NaN
    ELSE IF IsInf(a)
         THEN IF IsInf(b) THEN NaN
              ELSE <<Sgn(a[1]) * (IF b[1] >= 0 THEN 1 ELSE -1), ESpecial>>
    ELSE IF IsInf(b) THEN Zero
    ELSE IF b[1] = 0 THEN IF a[1] = 0 THEN NaN ELSE <<Sgn(a[1]), ESpecial>>
    ELSE IF a[1] = 0 THEN Zero
    ELSE DivFin(a, b)

\* sum of two finite non-zero numbers, hi the one of larger exponent;
\* one guard digit is kept of the smaller operand
AddFin(hi, lo) ==
    LET d == hi[2] - lo[2]
    IN  IF d > 9 THEN hi
        ELSE IF d <= 1 THEN Rnd(hi[1] * 10^d + lo[1], lo[2])
        ELSE Rnd(hi[1] * 10 + Sgn(lo[1]) * RoundDiv(IAbs(lo[1]), 10^(d - 1)),
                 hi[2] - 1)

FAdd(a, b) ==
    IF IsNaN(a) \/ IsNaN(b) THEN NaN
    ELSE IF IsInf(a) THEN (IF IsInf(b) /\ b[1] # a[1] THEN NaN ELSE a)
    ELSE IF IsInf(b) THEN b
    ELSE IF a[1] = 0 THEN b
    ELSE IF b[1] = 0 THEN a
    ELSE IF a[2] >= b[2] THEN AddFin(a, b) ELSE AddFin(b, a)

FSub(a, b) == FAdd(a, FNeg(b))

\* == on floats: NaN equals nothing
FEq(a, b) == ~IsNaN(a) /\ ~IsNaN(b) /\ a = b

\* sign of a - b, for a and b not NaN
FCmp(a, b) ==
    IF IsInf(a) \/ IsInf(b)
    THEN IF a = b THEN 0 ELSE IF IsInf(a) THEN a[1] ELSE -b[1]
    ELSE IF a[1] = 0 THEN -Sgn(b[1])
    ELSE IF b[1] = 0 THEN Sgn(a[1])
    ELSE IF Sgn(a[1]) # Sgn(b[1]) THEN Sgn(a[1])
    ELSE IF a[2] # b[2] THEN Sgn(a[1]) * (IF a[2] > b[2] THEN 1 ELSE -1)
    ELSE Sgn(a[1] - b[1])

FLt(a, b) == ~IsNaN(a) /\ ~IsNaN(b) /\ FCmp(a, b) < 0
FLe(a, b) == ~IsNaN(a) /\ ~IsNaN(b) /\ FCmp(a, b) <= 0

\* b ** n for an integer n >= 0 (b ** 0 is 1 for every b)
RECURSIVE FPow(_, _)
FPow(b, n) == IF n = 0 THEN One ELSE FMul(FPow(b, n - 1), b)

---------------------------------------------------------------------------
(* Rate conversions (lines 133 and 146), evaluated in fixed point with 16  *)
(* decimal places: a number is five limbs <<n1, n2, n3, n4, n5>> in base   *)
(* 10^4, n1 the integer part.  pow() is modelled as the exact power        *)
(* truncated to that precision.                                            *)

Base == 10^4
FixOne == <<1, 0, 0, 0, 0>>
FixZero == <<0, 0, 0, 0, 0>>

RECURSIVE FixRawSum(_, _, _, _)
\* sum of a[i] * b[k + 1 - i] over i in lo..5 with k + 1 - i in 1..5
FixRawSum(a, b, k, i) ==
    IF i > 5 \/ i > k THEN 0
    ELSE (IF k + 1 - i <= 5 THEN a[i] * b[k + 1 - i] ELSE 0)
         + FixRawSum(a, b, k, i + 1)

RECURSIVE FixCarry(_, _, _)
\* the carry into limb k of the product, from the limbs below it
FixCarry(a, b, k) ==
    IF k >= 9 THEN 0
    ELSE (FixRawSum(a, b, k + 1, 1) + FixCarry(a, b, k + 1)) \div Base

FixMulLimb(a, b, k) == FixRawSum(a, b, k, 1) + FixCarry(a, b, k)

\* product truncated to 16 places (the integer limb is not reduced)
FixMul(a, b) ==
    <<FixMulLimb(a, b, 1), FixMulLimb(a, b, 2) % Base, FixMulLimb(a, b, 3) % Base,
      FixMulLimb(a, b, 4) % Base, FixMulLimb(a, b, 5) % Base>>

RECURSIVE FixCmpFrom(_, _, _)
FixCmpFrom(a, b, i) ==
    IF i > 5 THEN 0
    ELSE IF a[i] # b[i] THEN Sgn(a[i] - b[i])
    ELSE FixCmpFrom(a, b, i + 1)

FixLe(a, b) == FixCmpFrom(a, b, 1) <= 0

RECURSIVE FixBorrow(_, _, _)
\* the borrow taken from limb k by the limbs below it, in a - b
FixBorrow(a, b, k) ==
    IF k >= 5 THEN 0
    ELSE IF a[k + 1] - b[k + 1] - FixBorrow(a, b, k + 1) < 0 THEN 1 ELSE 0

FixSubLimb(a, b, k) == a[k] - b[k] - FixBorrow(a, b, k)

\* a - b for a >= b
FixSub(a, b) ==
    <<FixSubLimb(a, b, 1), FixSubLimb(a, b, 2) % Base, FixSubLimb(a, b, 3) % Base,
      FixSubLimb(a, b, 4) % Base, FixSubLimb(a, b, 5) % Base>>

FixAbsDiff(a, b) == IF FixLe(b, a) THEN FixSub(a, b) ELSE FixSub(b, a)

FixAddInt(a, n) == <<a[1] + n, a[2], a[3], a[4], a[5]>>

FixCube(y, y2) == FixMul(y2, y)
FixSquare(y) == FixMul(y, y)
\* y ** 12 = ((y ** 3) ** 2) ** 2
FixPow12(y) == FixSquare(FixSquare(FixCube(y, FixSquare(y))))

RECURSIVE FixRootSearch(_, _, _, _, _)
\* the largest v in lo..hi with (prefix with limb k set to v) ** 12 <= x
FixRootSearch(x, prefix, k, lo, hi) ==
    IF lo >= hi THEN lo
    ELSE IF FixLe(FixPow12([prefix EXCEPT ![k] = (lo + hi + 1) \div 2]), x)
         THEN FixRootSearch(x, prefix, k, (lo + hi + 1) \div 2, hi)
         ELSE FixRootSearch(x, prefix, k, lo, (lo + hi + 1) \div 2 - 1)

FixRootLimb(x, prefix, k) ==
    [prefix EXCEPT ![k] = FixRootSearch(x, prefix, k, 0, Base - 1)]

\* x ** (1/12) for 1 <= x < 4096: the largest y with y ** 12 <= x
FixRoot12(x) ==
    FixRootLimb(x, FixRootLimb(x, FixRootLimb(x, FixRootLimb(x, FixOne, 2), 3), 4), 5)

\* (1 + a) ** (1/12) - 1                                        (line 133)
monthly_from_annual(a) == FixAddInt(FixRoot12(FixAddInt(a, 1)), -1)

FixPow11(y) == FixMul(FixCube(y, FixSquare(y)), FixSquare(FixSquare(FixSquare(y))))
\* (mutant) eleven compounding periods instead of twelve
annual_from_monthly_p11(m) == FixAddInt(FixPow11(FixAddInt(m, 1)), -1)

\* (1 + m) ** 12 - 1                                            (line 146)
annual_from_monthly(m) == FixAddInt(FixPow12(FixAddInt(m, 1)), -1)

RECURSIVE FixRatioLimbs(_, _, _)
\* the k limbs after the integer part of r / den, r < den
FixRatioLimbs(r, den, k) ==
    IF k = 0 THEN <<>>
    ELSE <<(r * Base) \div den>> \o FixRatioLimbs((r * Base) % den, den, k - 1)

\* num / den truncated to 16 places
FixFromRatio(num, den) == <<num \div den>> \o FixRatioLimbs(num % den, den, 4)

---------------------------------------------------------------------------
(* scipy.optimize.newton(func, x0) as called on line 60: no fprime, so the *)
(* secant method, with the defaults tol = 1.48e-8, maxiter = 50, rtol = 0, *)
(* disp = True.  One NewtonStep is one pass of its for loop.               *)

Tol == <<14800000, -15>>         \* 1.48e-8
SecantEps == <<10000000, -11>>   \* 1e-4
MaxIter == 50
Two == FromInt(2)
Hundred == FromInt(100)

\* Python's None: not a float
None == <<0, ESpecial + 1>>

\* np.isclose(a, b, rtol=0, atol=tol)
IsClose(a, b) ==
    IF IsNaN(a) \/ IsNaN(b) THEN FALSE
    ELSE IF IsInf(a) \/ IsInf(b) THEN a = b
    ELSE FLe(FAbs(FSub(a, b)), Tol)

\* [-initial_investment] + cash_flows
CashFlowsWithInitial(initial_investment_, cash_flows_) ==
    <<FNeg(initial_investment_)>> \o cash_flows_

\* (mutant) exponents counted from 1: the investment discounted one period
DiscountFactorFromOne(base, n) == FPow(base, n)

\* the element of base ** np.arange(len(c)) at position n (1-based)
DiscountFactor(base, n) == FPow(base, n - 1)

\* np.sum(c / base ** np.arange(len(c))) over the first n elements of c
RECURSIVE SumTerms(_, _, _)
SumTerms(c, base, n) ==
    IF n = 0 THEN Zero
    ELSE FAdd(SumTerms(c, base, n - 1), FDiv(c[n], DiscountFactor(base, n)))

DiscountedSum(c, r) == SumTerms(c, FAdd(One, r), Len(c))

\* the secant update of newton()
SecantUpdate(p0, q0, p1, q1) ==
    IF FLt(FAbs(q0), FAbs(q1))
    THEN FDiv(FAdd(FMul(FDiv(FNeg(q0), q1), p1), p0), FSub(One, FDiv(q0, q1)))
    ELSE FDiv(FAdd(FMul(FDiv(FNeg(q1), q0), p0), p1), FSub(One, FDiv(q1, q0)))

\* an iterate outside the domain r > -1, or a function value that is not
\* finite (division by zero, overflow)
OffDomain(p, q) == ~FLt(FNeg(One), p) \/ ~IsFinite(q)

NoSecant ==
    [c |-> <<>>, x0 |-> None, p0 |-> None, q0 |-> None, p1 |-> None,
     q1 |-> None, itr |-> 0, off |-> FALSE]

SecantState(c, x0, p0, q0, p1, q1, itr, off) ==
    [c |-> c, x0 |-> x0, p0 |-> p0, q0 |-> q0, p1 |-> p1, q1 |-> q1,
     itr |-> itr, off |-> off]

\* p1 = x0 * (1 + eps); p1 += (eps if p1 >= 0 else -eps)
SecantSecondPoint(x0) ==
    LET p1 == FMul(x0, FAdd(One, SecantEps))
    IN  FAdd(p1, IF FLe(Zero, p1) THEN SecantEps ELSE FNeg(SecantEps))

\* q0, q1 evaluated and the pair ordered so that |q1| <= |q0| is not forced:
\* if abs(q1) < abs(q0): p0, p1, q0, q1 = p1, p0, q1, q0
SecantOrdered(c, x0, p0, q0, p1, q1) ==
    IF FLt(FAbs(q1), FAbs(q0))
    THEN SecantState(c, x0, p1, q1, p0, q0, 0, OffDomain(p0, q0) \/ OffDomain(p1, q1))
    ELSE SecantState(c, x0, p0, q0, p1, q1, 0, OffDomain(p0, q0) \/ OffDomain(p1, q1))

SecantEntryAt(c, x0, p1) ==
    SecantOrdered(c, x0, x0, DiscountedSum(c, x0), p1, DiscountedSum(c, p1))

\* newton() up to the first pass of its loop
NewtonEntry(c, x0) == SecantEntryAt(c, x0, SecantSecondPoint(x0))

NewtonRaise(s) == [kind |-> "RuntimeError", value |-> NaN, next |-> s]
NewtonReturn(s, p) == [kind |-> "ok", value |-> p, next |-> s]
NewtonContinue(s, p, q) ==
    [kind |-> "continue", value |-> p,
     next |-> SecantState(s.c, s.x0, s.p1, s.q1, p, q, s.itr + 1,
                          s.off \/ OffDomain(p, q))]

\* (mutant) newton called with disp=False: the last iterate is returned
SecantExhaustedReturns(s) == NewtonReturn(s, s.p1)

\* the budget of maxiter passes is used up: disp=True raises RuntimeError
SecantExhausted(s) == NewtonRaise(s)

SecantAfterUpdate(s, p) ==
    IF IsClose(p, s.p1) THEN NewtonReturn(s, p)
    ELSE NewtonContinue(s, p, DiscountedSum(s.c, p))

\* one pass of the loop "for itr in range(maxiter)", or the raise after it
SecantPass(s) ==
    IF s.itr = MaxIter THEN SecantExhausted(s)
    ELSE IF FEq(s.q1, s.q0)
         THEN IF ~FEq(s.p1, s.p0) THEN NewtonRaise(s)
              ELSE NewtonReturn(s, FDiv(FAdd(s.p1, s.p0), Two))
         ELSE SecantAfterUpdate(s, SecantUpdate(s.p0, s.q0, s.p1, s.q1))

\* calculate_irr's return for newton's result r:
\*     try: return newton(...)   except RuntimeError: return None
IrrReturn(r) == IF r.kind = "RuntimeError" THEN None ELSE r.value

\* calculate_present_value(initial_investment, cash_flows, discount_rate)
calculate_present_value(initial_investment_, cash_flows_, discount_rate_) ==
    DiscountedSum(CashFlowsWithInitial(initial_investment_, cash_flows_),
                  discount_rate_)

---------------------------------------------------------------------------
(* Conversions between the two number models, and output formatting        *)

\* limb k of a finite float a, 0 <= a < 10^4, truncated to 16 places
FloatLimb(a, k) ==
    LET s == a[2] + 4 * (k - 1)
    IN  IF s >= 4 THEN 0
        ELSE IF s >= 0 THEN ((a[1] % Base) * 10^s) % Base
        ELSE IF -s > 8 THEN 0
        ELSE (a[1] \div 10^(-s)) % Base

FloatToFix(a) == [k \in 1..5 |-> FloatLimb(a, k)]

FixLimbOrZero(f, k) == IF k <= 5 THEN f[k] ELSE 0

\* the float of the nine leading digits of f, which start in limb k
FixToFloatFrom(f, k, d) ==
    Rnd((f[k] * Base + FixLimbOrZero(f, k + 1)) * 10^(5 - d)
          + FixLimbOrZero(f, k + 2) \div 10^(d - 1),
        d - 5 - 4 * k)

RECURSIVE FixLeadingLimb(_, _)
FixLeadingLimb(f, k) ==
    IF k > 5 THEN 0 ELSE IF f[k] # 0 THEN k ELSE FixLeadingLimb(f, k + 1)

FixToFloat(f) ==
    IF FixLeadingLimb(f, 1) = 0 THEN Zero
    ELSE FixToFloatFrom(f, FixLeadingLimb(f, 1), NumDigits(f[FixLeadingLimb(f, 1)]))

\* x rounded to k decimal places, as the format specs ".kf" print it
RoundPlaces(x, k) ==
    IF ~IsFinite(x) \/ x[1] = 0 \/ x[2] >= -k THEN x
    ELSE IF -k - x[2] > 8 THEN Zero
    ELSE Rnd(Sgn(x[1]) * RoundDiv(IAbs(x[1]), 10^(-k - x[2])), -k)

\* f"{x:.k%}": the value times 100, to k places
FormatPercent(x, k) == RoundPlaces(FMul(x, Hundred), k)
\* f"{x:.kf}"
FormatFixed(x, k) == RoundPlaces(x, k)

---------------------------------------------------------------------------
(* Inputs of the form                                                      *)

MaxPeriods == 3
PeriodTypes == {"monthly", "annual"}
RatePercentValues == {FromInt(0), FromInt(10), FromInt(100)}
InvestmentValues == {FromInt(0), FromInt(10)}
CashValues == {FromInt(-1), FromInt(0), FromInt(1), FromInt(2)}

\* annual_discount_rate /= 100                                  (line 107)
PercentToFraction(pct) == FDiv(pct, Hundred)
AnnualRateValues == {PercentToFraction(pct) : pct \in RatePercentValues}

\* (1 + annual_discount_rate)**(1/12) - 1, for each rate of the model
MonthlyRateTable ==
    [a \in AnnualRateValues |-> FixToFloat(monthly_from_annual(FloatToFix(a)))]

\* line 133: monthly_discount_rate = ... if period_type == "月" else annual
PeriodLocalRate(period_type_, annual_discount_rate_) ==
    IF period_type_ = "monthly" THEN MonthlyRateTable[annual_discount_rate_]
    ELSE annual_discount_rate_

\* (mutant) the per-period loop appends what the widget returns instead of
\* replacing the element
BuildCashFlowsAppend(uniform_, num_periods_, base_value, widget_values) ==
    IF uniform_ THEN [i \in 1..num_periods_ |-> base_value]
    ELSE [i \in 1..num_periods_ |-> base_value] \o widget_values

\* lines 119-131: the list is num_periods copies of the base value; in the
\* per-period mode each element is then replaced by what its widget returns:
\* the widget's own value where it exists, and its default, the element
\* itself, where the widget is new
BuildCashFlows(uniform_, num_periods_, base_value, widget_values) ==
    [i \in 1..num_periods_ |->
        IF ~uniform_ /\ i <= Len(widget_values) THEN widget_values[i]
        ELSE base_value]

---------------------------------------------------------------------------
(* Outputs                                                                 *)

Message(level, label, values) ==
    [level |-> level, label |-> label, values |-> values]

MismatchError == Message("error", "cash_flow_count_mismatch", <<>>)
IrrFailureError == Message("error", "irr_failure", <<>>)
MonthlyRateMessage(rate) ==
    Message("success", "monthly_discount_rate", <<FormatPercent(rate, 4)>>)
MonthlyIrrMessage(irr_, annual_irr_) ==
    Message("success", "monthly_irr",
            <<FormatPercent(irr_, 2), FormatPercent(annual_irr_, 2)>>)
AnnualIrrMessage(irr_) == Message("success", "annual_irr", <<FormatPercent(irr_, 2)>>)
PresentValueMessage(pv) == Message("info", "present_value", <<FormatFixed(pv, 2)>>)

\* annual_irr = (1 + irr)**12 - 1                               (line 146)
AnnualizedIrr(irr_) == FSub(FPow(FAdd(One, irr_), 12), One)

ReportResult(outcome_, display_, calls_, annual_irr_, rate_, pv_) ==
    [outcome |-> outcome_, display |-> display_, calls |-> calls_,
     annual_irr |-> annual_irr_, discount_rate |-> rate_, present_value |-> pv_]

MonthlyReport(mdr, irr_, annual_irr_, pv) ==
    ReportResult("success",
                 <<MonthlyRateMessage(mdr), MonthlyIrrMessage(irr_, annual_irr_),
                   PresentValueMessage(pv)>>,
                 <<"annualize", "calculate_present_value">>,
                 annual_irr_, mdr, pv)

AnnualReport(adr, irr_, pv) ==
    ReportResult("success", <<AnnualIrrMessage(irr_), PresentValueMessage(pv)>>,
                 <<"calculate_present_value">>, None, adr, pv)

\* (mutant) the present value is taken at the solved IRR
MainReportPVAtIrr(period_type_, mdr, adr, initial_investment_, cash_flows_, irr_) ==
    IF irr_ # None
    THEN IF period_type_ = "monthly"
         THEN MonthlyReport(irr_, irr_, AnnualizedIrr(irr_),
                  calculate_present_value(initial_investment_, cash_flows_, irr_))
         ELSE AnnualReport(irr_, irr_,
                  calculate_present_value(initial_investment_, cash_flows_, irr_))
    ELSE ReportResult("failure", <<IrrFailureError>>, <<>>, None, None, None)

\* (mutant) the monthly rate is shown and the PV computed before irr is tested
MainReportPartialOnFailure(period_type_, mdr, adr, initial_investment_, cash_flows_, irr_) ==
    IF irr_ # None
    THEN IF period_type_ = "monthly"
         THEN MonthlyReport(mdr, irr_, AnnualizedIrr(irr_),
                  calculate_present_value(initial_investment_, cash_flows_, mdr))
         ELSE AnnualReport(adr, irr_,
                  calculate_present_value(initial_investment_, cash_flows_, adr))
    ELSE ReportResult("failure", <<MonthlyRateMessage(mdr), IrrFailureError>>,
                      <<"calculate_present_value">>, None, None,
                      calculate_present_value(initial_investment_, cash_flows_, mdr))

\* (mutant) the periodicity is not tested: the monthly outputs are always shown
MainReportAlwaysMonthly(period_type_, mdr, adr, initial_investment_, cash_flows_, irr_) ==
    IF irr_ # None
    THEN MonthlyReport(mdr, irr_, AnnualizedIrr(irr_),
             calculate_present_value(initial_investment_, cash_flows_, mdr))
    ELSE ReportResult("failure", <<IrrFailureError>>, <<>>, None, None, None)

\* lines 144-157 of main: what is computed and shown once calculate_irr
\* has returned irr_
MainReport(period_type_, mdr, adr, initial_investment_, cash_flows_, irr_) ==
    IF irr_ # None
    THEN IF period_type_ = "monthly"
         THEN MonthlyReport(mdr, irr_, AnnualizedIrr(irr_),
                  calculate_present_value(initial_investment_, cash_flows_, mdr))
         ELSE AnnualReport(adr, irr_,
                  calculate_present_value(initial_investment_, cash_flows_, adr))
    ELSE ReportResult("failure", <<IrrFailureError>>, <<>>, None, None, None)

\* the numeric work of line 133, done by every run of the script
ConversionCalls(period_type_) ==
    IF period_type_ = "monthly" THEN <<"monthly_from_annual">> ELSE <<>>

---------------------------------------------------------------------------
VARIABLES
    period_type,            \* "monthly" | "annual"                (line 103)
    annual_discount_rate,   \* after the division by 100           (line 107)
    uniform_cash_flow,      \* TRUE for "是"                        (line 110)
    initial_investment,     \*                                     (line 115)
    num_periods,            \*                                     (line 117)
    cash_flows,             \*                                (lines 119-131)
    monthly_discount_rate,  \*                                     (line 133)
    outcome,                \* "idle" | "running" | "mismatch" | "failure" | "success"
    sec,                    \* newton's locals while calculate_irr runs
    discount_rate,          \* the discount_rate argument of the last call
    irr,                    \*                                     (line 142)
    annual_irr,             \*                                     (line 146)
    present_value,          \*                              (lines 150, 153)
    display,                \* what st.success / st.info / st.error have shown
    calls,                  \* the numeric computations of the current run
    conv                    \* the rate conversions applied on their own

vars == <<period_type, annual_discount_rate, uniform_cash_flow,
          initial_investment, num_periods, cash_flows, monthly_discount_rate,
          outcome, sec, discount_rate, irr, annual_irr, present_value,
          display, calls, conv>>

NoConv == [step |-> "none", a |-> FixZero, m |-> FixZero, back |-> FixZero]

CashFlowLists(n) == [1..n -> CashValues]

\* a run of the script in which the button was not pressed: the widgets
\* are read, lines 119-133 run, nothing is shown
Rerun(pt, adr, uni, inv, n, cfs) ==
    /\ outcome # "running"
    /\ period_type' = pt
    /\ annual_discount_rate' = adr
    /\ uniform_cash_flow' = uni
    /\ initial_investment' = inv
    /\ num_periods' = n
    /\ cash_flows' = cfs
    /\ monthly_discount_rate' = PeriodLocalRate(pt, adr)
    /\ outcome' = "idle"
    /\ sec' = NoSecant
    /\ discount_rate' = None
    /\ irr' = None
    /\ annual_irr' = None
    /\ present_value' = None
    /\ display' = <<>>
    /\ calls' = ConversionCalls(pt)
    /\ UNCHANGED conv

\* the list lines 119-131 build when no cash-flow widget has changed
SameCashFlows ==
    BuildCashFlows(uniform_cash_flow, num_periods, cash_flows[1], cash_flows)

Init ==
    /\ period_type \in PeriodTypes
    /\ annual_discount_rate \in AnnualRateValues
    /\ uniform_cash_flow \in BOOLEAN
    /\ initial_investment \in InvestmentValues
    /\ num_periods \in 1..MaxPeriods
    /\ \E base \in CashValues : \E w \in CashFlowLists(num_periods) :
          cash_flows = BuildCashFlows(uniform_cash_flow, num_periods, base, w)
    /\ monthly_discount_rate = PeriodLocalRate(period_type, annual_discount_rate)
    /\ outcome = "idle"
    /\ sec = NoSecant
    /\ discount_rate = None
    /\ irr = None
    /\ annual_irr = None
    /\ present_value = None
    /\ display = <<>>
    /\ calls = ConversionCalls(period_type)
    /\ conv = NoConv

SetPeriodType(pt) ==
    /\ pt # period_type
    /\ Rerun(pt, annual_discount_rate, uniform_cash_flow, initial_investment,
             num_periods, SameCashFlows)

SetAnnualRate(pct) ==
    /\ PercentToFraction(pct) # annual_discount_rate
    /\ Rerun(period_type, PercentToFraction(pct), uniform_cash_flow,
             initial_investment, num_periods, SameCashFlows)

SetInvestment(v) ==
    /\ v # initial_investment
    /\ Rerun(period_type, annual_discount_rate, uniform_cash_flow, v,
             num_periods, SameCashFlows)

\* the mode is switched: the widgets of the other mode are new and start
\* from their base value
SetUniformCashFlow(uni, base) ==
    /\ uni # uniform_cash_flow
    /\ Rerun(period_type, annual_discount_rate, uni, initial_investment,
             num_periods, BuildCashFlows(uni, num_periods, base, <<>>))

\* the period count is changed: per-period widgets beyond the old count
\* are new and show the base value
SetNumPeriods(n, base) ==
    /\ n # num_periods
    /\ uniform_cash_flow => base = cash_flows[1]
    /\ Rerun(period_type, annual_discount_rate, uniform_cash_flow,
             initial_investment, n,
             BuildCashFlows(uniform_cash_flow, n, base, cash_flows))

\* "每期现金流" is edited (uniform mode)
SetCashFlowValue(v) ==
    /\ uniform_cash_flow
    /\ v # cash_flows[1]
    /\ Rerun(period_type, annual_discount_rate, uniform_cash_flow,
             initial_investment, num_periods,
             BuildCashFlows(TRUE, num_periods, v, <<>>))

\* "统一赋值" is edited (per-period mode): the per-period widgets get a new
\* default, which re-creates them
SetUniformValue(v) ==
    /\ ~uniform_cash_flow
    /\ Rerun(period_type, annual_discount_rate, uniform_cash_flow,
             initial_investment, num_periods,
             BuildCashFlows(FALSE, num_periods, v, <<>>))

\* the widget of period i is edited (per-period mode)
SetPeriodCashFlow(i, v) ==
    /\ ~uniform_cash_flow
    /\ i \in 1..num_periods
    /\ v # cash_flows[i]
    /\ Rerun(period_type, annual_discount_rate, uniform_cash_flow,
             initial_investment, num_periods,
             BuildCashFlows(FALSE, num_periods, v, [cash_flows EXCEPT ![i] = v]))

\* lines 138-142 for the list cfs: the count check, then calculate_irr is
\* entered with the period-local rate as the guess
CalculateWith(cfs, rate) ==
    /\ cash_flows' = cfs
    /\ monthly_discount_rate' = rate
    /\ irr' = None
    /\ annual_irr' = None
    /\ present_value' = None
    /\ IF Len(cfs) # num_periods
       THEN /\ outcome' = "mismatch"
            /\ display' = <<MismatchError>>
            /\ calls' = ConversionCalls(period_type)
            /\ sec' = NoSecant
            /\ discount_rate' = None
       ELSE /\ outcome' = "running"
            /\ display' = <<>>
            /\ calls' = ConversionCalls(period_type) \o <<"calculate_irr">>
            /\ sec' = NewtonEntry(CashFlowsWithInitial(initial_investment, cfs), rate)
            /\ discount_rate' = rate

\* the button "计算" is pressed: the script runs with the widgets as they are
Calculate ==
    /\ outcome # "running"
    /\ CalculateWith(SameCashFlows, PeriodLocalRate(period_type, annual_discount_rate))
    /\ UNCHANGED <<period_type, annual_discount_rate, uniform_cash_flow,
                   initial_investment, num_periods, conv>>

\* calculate_irr has returned irr_: lines 144-157
Finish(irr_, report) ==
    /\ irr' = irr_
    /\ outcome' = report.outcome
    /\ display' = report.display
    /\ calls' = calls \o report.calls
    /\ annual_irr' = report.annual_irr
    /\ present_value' = report.present_value
    /\ discount_rate' = (IF report.outcome = "success" THEN report.discount_rate
                         ELSE discount_rate)

FinishWith(irr_) ==
    Finish(irr_, MainReport(period_type, monthly_discount_rate,
                            annual_discount_rate, initial_investment,
                            cash_flows, irr_))

StepWith(r) ==
    /\ sec' = r.next
    /\ IF r.kind = "continue"
       THEN UNCHANGED <<outcome, discount_rate, irr, annual_irr, present_value,
                        display, calls>>
       ELSE FinishWith(IrrReturn(r))

\* one pass of newton's loop; when newton returns or raises, calculate_irr
\* returns and the script runs to its end
NewtonStep ==
    /\ outcome = "running"
    /\ StepWith(SecantPass(sec))
    /\ UNCHANGED <<period_type, annual_discount_rate, uniform_cash_flow,
                   initial_investment, num_periods, cash_flows,
                   monthly_discount_rate, conv>>

Next ==
    \/ \E pt \in PeriodTypes : SetPeriodType(pt)
    \/ \E pct \in RatePercentValues : SetAnnualRate(pct)
    \/ \E v \in InvestmentValues : SetInvestment(v)
    \/ \E uni \in BOOLEAN : \E base \in CashValues : SetUniformCashFlow(uni, base)
    \/ \E n \in 1..MaxPeriods : \E base \in CashValues : SetNumPeriods(n, base)
    \/ \E v \in CashValues : SetCashFlowValue(v)
    \/ \E v \in CashValues : SetUniformValue(v)
    \/ \E i \in 1..MaxPeriods : \E v \in CashValues : SetPeriodCashFlow(i, v)
    \/ Calculate
    \/ NewtonStep

Spec == Init /\ [][Next]_vars

---------------------------------------------------------------------------
(* calculate_present_value applied on its own                              *)

RateValues ==
    {FromInt(-2), FDiv(FromInt(-1), Two), Zero, FDiv(One, FromInt(10)), One}

IdleLocals ==
    /\ sec = NoSecant
    /\ irr = None
    /\ annual_irr = None
    /\ present_value = None
    /\ display = <<>>
    /\ calls = <<>>

InitPV ==
    /\ period_type = "annual"
    /\ annual_discount_rate = Zero
    /\ monthly_discount_rate = Zero
    /\ uniform_cash_flow = FALSE
    /\ initial_investment \in InvestmentValues
    /\ num_periods \in 1..MaxPeriods
    /\ cash_flows \in CashFlowLists(num_periods)
    /\ discount_rate \in RateValues
    /\ outcome = "called"
    /\ IdleLocals
    /\ conv = NoConv

ApplyPresentValue ==
    /\ outcome = "called"
    /\ present_value' =
          calculate_present_value(initial_investment, cash_flows, discount_rate)
    /\ outcome' = "returned"
    /\ calls' = <<"calculate_present_value">>
    /\ UNCHANGED <<period_type, annual_discount_rate, uniform_cash_flow,
                   initial_investment, num_periods, cash_flows,
                   monthly_discount_rate, sec, discount_rate, irr, annual_irr,
                   display, conv>>

NextPV == ApplyPresentValue

SpecPV == InitPV /\ [][NextPV]_vars

---------------------------------------------------------------------------
(* The two rate conversions applied one after the other                    *)

GridSteps == 40

InitRate ==
    /\ period_type = "monthly"
    /\ annual_discount_rate = Zero
    /\ monthly_discount_rate = Zero
    /\ uniform_cash_flow = TRUE
    /\ initial_investment = Zero
    /\ num_periods = 1
    /\ cash_flows = <<Zero>>
    /\ discount_rate = None
    /\ outcome = "idle"
    /\ IdleLocals
    /\ \E k \in 0..GridSteps :
          conv = [step |-> "input", a |-> FixFromRatio(5 * k, GridSteps),
                  m |-> FixZero, back |-> FixZero]

ConvertToMonthly ==
    /\ conv.step = "input"
    /\ conv' = [conv EXCEPT !.step = "monthly", !.m = monthly_from_annual(conv.a)]
    /\ UNCHANGED <<period_type, annual_discount_rate, uniform_cash_flow,
                   initial_investment, num_periods, cash_flows,
                   monthly_discount_rate, outcome, sec, discount_rate, irr,
                   annual_irr, present_value, display, calls>>

ConvertToAnnual ==
    /\ conv.step = "monthly"
    /\ conv' = [conv EXCEPT !.step = "annual", !.back = annual_from_monthly(conv.m)]
    /\ UNCHANGED <<period_type, annual_discount_rate, uniform_cash_flow,
                   initial_investment, num_periods, cash_flows,
                   monthly_discount_rate, outcome, sec, discount_rate, irr,
                   annual_irr, present_value, display, calls>>

NextRate == ConvertToMonthly \/ ConvertToAnnual

SpecRate == InitRate /\ [][NextRate]_vars

---------------------------------------------------------------------------
(* Properties                                                              *)

Finished == outcome \in {"mismatch", "failure", "success"}
Labels(d) == [i \in 1..Len(d) |-> d[i].label]
Count(log, name) == Cardinality({i \in 1..Len(log) : log[i] = name})
PeriodRate == PeriodLocalRate(period_type, annual_discount_rate)

\* C1: on success the present value that is reported is
\* calculate_present_value at the period-local discount rate of the user's
\* annual rate (converted when monthly, as entered when annual), not at the
\* IRR that calculate_irr returned.
C1_PVAtDiscountRate ==
    outcome = "success" =>
        /\ discount_rate = PeriodRate
        /\ present_value =
              calculate_present_value(initial_investment, cash_flows, PeriodRate)
        /\ display[Len(display)].label = "present_value"
        /\ display[Len(display)].values = <<FormatFixed(present_value, 2)>>

\* a monthly success whose IRR is not the discount rate and whose PV at the
\* IRR would have been another number
C1_Witness ==
    /\ outcome = "success"
    /\ period_type = "monthly"
    /\ irr # discount_rate
    /\ present_value # calculate_present_value(initial_investment, cash_flows, irr)

\* C3: whenever calculate_irr returns a rate (not None), the NPV at that
\* rate is zero within the tolerance.  The tolerance of the claim, 1e-6, is
\* widened here to 1e-3, above the rounding of the 8-digit arithmetic: a
\* return outside the wider band is outside the claim's.
RootTol == <<10000000, -10>>
C3_ReturnedRateIsRoot ==
    outcome = "success" =>
        FLe(FAbs(calculate_present_value(initial_investment, cash_flows, irr)),
            RootTol)

\* C4: every failure of the root-finder, a domain problem included (an
\* iterate with rate <= -1, a division by zero, an overflow), ends with
\* calculate_irr returning None and the convergence-failure message.
C4_DomainProblemGivesNone ==
    (outcome \in {"failure", "success"} /\ sec.off) =>
        /\ irr = None
        /\ display = <<IrrFailureError>>

\* C5: calculate_present_value returns -initial_investment plus the sum over
\* t = 1..N of cash_flows[t] / (1 + r)^t: the investment at exponent 0, the
\* k-th cash flow at exponent k.
RECURSIVE DirectSum(_, _, _, _)
DirectSum(inv, cfs, r, t) ==
    IF t = 0 THEN FNeg(inv)
    ELSE FAdd(DirectSum(inv, cfs, r, t - 1), FDiv(cfs[t], FPow(FAdd(One, r), t)))

C5_PresentValueFormula ==
    outcome = "returned" =>
        present_value =
            DirectSum(initial_investment, cash_flows, discount_rate, Len(cash_flows))

C5_Witness ==
    /\ outcome = "returned"
    /\ Len(cash_flows) = 3
    /\ initial_investment # Zero
    /\ FLt(discount_rate, Zero)
    /\ cash_flows[1] # cash_flows[2]
    /\ cash_flows[2] # cash_flows[3]
    /\ IsFinite(present_value)
    /\ present_value # FNeg(initial_investment)

\* C6: a calculation ends in one of three outcomes, the count-mismatch error,
\* the convergence-failure error or a success report, showing the messages
\* of that outcome only; when calculate_irr returns None nothing but the
\* failure message is shown, no annualized IRR and no PV is computed,
\* calculate_present_value is not called and calculate_irr was called once.
C6_TerminalOutcomes ==
    /\ outcome \in {"idle", "running", "mismatch", "failure", "success"}
    /\ outcome = "running" => sec.itr <= MaxIter /\ display = <<>>
    /\ outcome = "idle" => display = <<>>
    /\ outcome = "mismatch" => display = <<MismatchError>>
    /\ outcome = "failure" =>
          /\ irr = None
          /\ Labels(display) = <<"irr_failure">>
          /\ annual_irr = None
          /\ present_value = None
          /\ Count(calls, "calculate_present_value") = 0
          /\ Count(calls, "annualize") = 0
          /\ Count(calls, "calculate_irr") = 1
    /\ outcome = "success" =>
          /\ irr # None
          /\ \A i \in 1..Len(display) : display[i].level # "error"
          /\ Count(calls, "calculate_irr") = 1
          /\ Count(calls, "calculate_present_value") = 1

\* a monthly request whose solver used up its budget
C6_Witness ==
    /\ outcome = "failure"
    /\ period_type = "monthly"
    /\ sec.itr = MaxIter
    /\ annual_discount_rate # Zero

\* C7: on success, monthly periodicity shows the monthly discount rate, the
\* monthly IRR with its annualized form (1 + irr)^12 - 1, and the PV; annual
\* periodicity shows the annual IRR and the PV only, with the annual rate
\* used as entered as the solver's guess and as the PV rate.
C7_OutputsByPeriodicity ==
    outcome = "success" =>
        IF period_type = "monthly"
        THEN /\ Labels(display) =
                   <<"monthly_discount_rate", "monthly_irr", "present_value">>
             /\ monthly_discount_rate = MonthlyRateTable[annual_discount_rate]
             /\ display[1].values = <<FormatPercent(monthly_discount_rate, 4)>>
             /\ annual_irr = FSub(FPow(FAdd(One, irr), 12), One)
             /\ display[2].values =
                   <<FormatPercent(irr, 2), FormatPercent(annual_irr, 2)>>
             /\ display[3].values = <<FormatFixed(present_value, 2)>>
             /\ sec.x0 = monthly_discount_rate
             /\ discount_rate = monthly_discount_rate
        ELSE /\ Labels(display) = <<"annual_irr", "present_value">>
             /\ display[1].values = <<FormatPercent(irr, 2)>>
             /\ display[2].values = <<FormatFixed(present_value, 2)>>
             /\ sec.x0 = annual_discount_rate
             /\ discount_rate = annual_discount_rate
             /\ monthly_discount_rate = annual_discount_rate
             /\ annual_irr = None
             /\ Count(calls, "monthly_from_annual") = 0
             /\ Count(calls, "annualize") = 0

\* an annual success at a rate whose monthly conversion is another number
C7_Witness ==
    /\ outcome = "success"
    /\ period_type = "annual"
    /\ annual_discount_rate # Zero
    /\ MonthlyRateTable[annual_discount_rate] # annual_discount_rate
    /\ irr # Zero

\* C8: with initial_investment = 0 and every cash flow strictly positive
\* calculate_irr returns None, and the request ends with the
\* convergence-failure message.
AllPositive(cfs) == \A i \in 1..Len(cfs) : FLt(Zero, cfs[i])

C8_ZeroCostIsNonConvergent ==
    (outcome \in {"failure", "success"}
       /\ initial_investment = Zero /\ AllPositive(cash_flows)) =>
        /\ irr = None
        /\ outcome = "failure"
        /\ display = <<IrrFailureError>>

\* three equal positive flows at no cost, guess 0, the budget used up
C8_Witness ==
    /\ outcome = "failure"
    /\ initial_investment = Zero
    /\ Len(cash_flows) = 3
    /\ AllPositive(cash_flows)
    /\ cash_flows[1] = cash_flows[2]
    /\ cash_flows[2] = cash_flows[3]
    /\ sec.x0 = Zero
    /\ sec.itr = MaxIter

\* C9: for an annual rate a in [0, 5], converting to the monthly rate and
\* back gives a within 1e-10.
RoundTripTol == <<0, 0, 0, 100, 0>>
C9_ConversionRoundTrip ==
    conv.step = "annual" => FixLe(FixAbsDiff(conv.back, conv.a), RoundTripTol)

\* the round trip from a = 5, which does not come back to 5 exactly
C9_Witness ==
    /\ conv.step = "annual"
    /\ conv.a = <<5, 0, 0, 0, 0>>
    /\ conv.m # FixZero
    /\ conv.back # conv.a

\* C10: the cash-flow list has num_periods elements whenever the script has
\* built it, in the uniform and in the per-period mode, so the count check
\* of the calculate action never fails.
C10_CashFlowCount ==
    /\ Len(cash_flows) = num_periods
    /\ DOMAIN cash_flows = 1..num_periods
    /\ outcome # "mismatch"
    /\ uniform_cash_flow => \A i \in 1..Len(cash_flows) : cash_flows[i] = cash_flows[1]

\* a finished calculation in the per-period mode with an overridden period
C10_Witness ==
    /\ Finished
    /\ ~uniform_cash_flow
    /\ num_periods = MaxPeriods
    /\ cash_flows[1] # cash_flows[2]
    /\ Len(cash_flows) = num_periods

===========================================================================
